---- MODULE Spec2Model ----
(***************************************************************************)
(* Model of backend/utils.py: the module constants SYSTEM_PROMPT and       *)
(* MODEL_NAME and the function get_agent_response, which forwards a        *)
(* conversation history to litellm.completion and returns the history      *)
(* with the assistant's reply appended.                                    *)
(*                                                                         *)
(* Python lists are objects: the heap maps an address to the list stored   *)
(* there, and the function's parameters and locals hold addresses, so      *)
(* that aliasing (current_messages = messages) and in-place mutation are   *)
(* visible.  Strings are sequences of one-character strings, so that       *)
(* str.strip() is computed rather than assumed.                            *)
(***************************************************************************)
EXTENDS Integers, Sequences, FiniteSets, TLC

VARIABLES
    MODEL_NAME,               \* module constant, read from the environment at import
    heap,                     \* heap[a]: contents of the list object at address a
    pc,                       \* pc[p]: position of invocation p
    messages,                 \* parameter `messages` of invocation p (address)
    current_messages,         \* local `current_messages` (address, 0 = unbound)
    completion,               \* local `completion` (provider response)
    assistant_reply_content,  \* local `assistant_reply_content`
    updated_messages,         \* local/returned `updated_messages` (address, 0 = unbound)
    raised,                   \* exception propagated to the caller ("" = none)
    input_before,             \* history: contents of the input list when the call was made
    requests,                 \* history: provider requests made by the current invocation
    turn                      \* number of calls made by caller p in its session

vars == <<MODEL_NAME, heap, pc, messages, current_messages, completion,
          assistant_reply_content, updated_messages, raised, input_before,
          requests, turn>>

(***************************************************************************)
(* Bounds of the model.                                                    *)
(***************************************************************************)
MaxHistLen == 2    \* longest input history of a single call
MaxReplyLen == 3   \* longest reply text returned by the provider
MaxTurns == 3      \* calls per multi-turn session

Procs == {"p1", "p2"}

(***************************************************************************)
(* Strings.                                                                *)
(***************************************************************************)
Whitespace == {" ", "\n"}
Chars == {"a"} \cup Whitespace

IsSpace(c) == c \in Whitespace

RECURSIVE LStrip(_)
LStrip(s) ==
    IF s # <<>> /\ IsSpace(Head(s)) THEN LStrip(Tail(s)) ELSE s

RECURSIVE RStrip(_)
RStrip(s) ==
    IF s # <<>> /\ IsSpace(s[Len(s)]) THEN RStrip(SubSeq(s, 1, Len(s) - 1)) ELSE s

StripLeftOnly(s) == LStrip(s)

\* str.strip(): leading and trailing whitespace removed
Strip(s) == RStrip(LStrip(s))

\* the prompt literal opens and closes with a newline
SYSTEM_PROMPT == <<"\n", "P", "\n">>

ModelNames == {"gpt-4o-mini", "env-model"}

(***************************************************************************)
(* Messages and histories supplied by callers.                             *)
(***************************************************************************)
Roles == {"system", "user", "assistant"}
Contents == {SYSTEM_PROMPT, <<"h", "i">>}
Message == [role : Roles, content : Contents]

SeqsUpTo(S, n) == UNION {[1..k -> S] : k \in 0..n}

Histories == SeqsUpTo(Message, MaxHistLen)

(***************************************************************************)
(* Provider responses: completion["choices"][i]["message"]["content"].     *)
(* kind "str": content is a string; "none": content is None; "missing":    *)
(* the message has no content key.                                         *)
(***************************************************************************)
ReplyTexts == SeqsUpTo(Chars, MaxReplyLen)

Choice(k, t) == [message |-> [kind |-> k, content |-> t]]

Choices == {Choice("str", t) : t \in ReplyTexts}
             \cup {Choice("none", <<>>), Choice("missing", <<>>)}

SecondChoices == {Choice("str", <<"a", "a">>), Choice("none", <<>>)}

Completions == {[choices |-> <<>>]}
                 \cup {[choices |-> <<c>>] : c \in Choices}
                 \cup {[choices |-> <<c, d>>] : c \in {Choice("str", <<" ", "a">>), Choice("missing", <<>>)},
                                                d \in SecondChoices}

\* a local that has not been assigned yet
Unbound == [unbound |-> TRUE]

(***************************************************************************)
(* Heap helpers.                                                           *)
(***************************************************************************)
\* a list expression ([..] + xs, xs + [..]) builds a new list object
Alloc(list) == Append(heap, list)
NewAddr == Len(heap) + 1

(***************************************************************************)
(* get_agent_response, line by line.                                       *)
(***************************************************************************)
SystemMessage == [role |-> "system", content |-> SYSTEM_PROMPT]

AssistantMessage(text) == [role |-> "assistant", content |-> text]

AlwaysPrepend(msgs) == TRUE

LastIsNotSystem(msgs) == msgs = <<>> \/ msgs[Len(msgs)].role # "system"

\* line 138: not messages or messages[0]["role"] != "system"
LacksSystemPrompt(msgs) == msgs = <<>> \/ msgs[1].role # "system"

PromptAppended(msgs) == msgs \o <<SystemMessage>>

\* line 139: [{"role": "system", "content": SYSTEM_PROMPT}] + messages
WithSystemPrompt(msgs) == <<SystemMessage>> \o msgs

\* line 120: a new activation of get_agent_response(messages), bound to the
\* list at address a whose contents are `contents` at the moment of the call
Enter(p, a, contents) ==
    /\ pc' = [pc EXCEPT ![p] = "line138"]
    /\ messages' = [messages EXCEPT ![p] = a]
    /\ current_messages' = [current_messages EXCEPT ![p] = 0]
    /\ completion' = [completion EXCEPT ![p] = Unbound]
    /\ assistant_reply_content' = [assistant_reply_content EXCEPT ![p] = <<>>]
    /\ updated_messages' = [updated_messages EXCEPT ![p] = 0]
    /\ raised' = [raised EXCEPT ![p] = ""]
    /\ input_before' = [input_before EXCEPT ![p] = contents]
    /\ requests' = [requests EXCEPT ![p] = <<>>]
    /\ turn' = [turn EXCEPT ![p] = @ + 1]

\* line 120: the caller evaluates get_agent_response(messages) with the list at address a
Invoke(p, a) ==
    /\ pc[p] = "idle"
    /\ a \in DOMAIN heap
    /\ Enter(p, a, heap[a])
    /\ UNCHANGED <<MODEL_NAME, heap>>

\* line 120: the caller appends a user message to the history it got back and calls again
NextTurn(p, u) ==
    /\ pc[p] = "returned"
    /\ turn[p] < MaxTurns
    /\ heap' = [heap EXCEPT ![updated_messages[p]] = Append(@, u)]
    /\ Enter(p, updated_messages[p], Append(heap[updated_messages[p]], u))
    /\ UNCHANGED MODEL_NAME

\* line 120: after an exception the caller calls again with the history it still holds
RetryTurn(p) ==
    /\ pc[p] = "raised"
    /\ turn[p] < MaxTurns
    /\ Enter(p, messages[p], heap[messages[p]])
    /\ UNCHANGED <<MODEL_NAME, heap>>

BuildSharedCurrentMessages(p) ==
    /\ pc[p] = "line138"
    /\ IF LacksSystemPrompt(heap[messages[p]])
       THEN /\ heap' = Alloc(WithSystemPrompt(heap[messages[p]]))
            /\ current_messages' = [q \in Procs |-> NewAddr]
       ELSE /\ current_messages' = [q \in Procs |-> messages[p]]
            /\ UNCHANGED heap
    /\ pc' = [pc EXCEPT ![p] = "line143"]
    /\ UNCHANGED <<MODEL_NAME, messages, completion, assistant_reply_content,
                   updated_messages, raised, input_before, requests, turn>>

\* lines 137-141: bind current_messages
BuildCurrentMessages(p) ==
    /\ pc[p] = "line138"
    /\ IF LacksSystemPrompt(heap[messages[p]])
       THEN /\ heap' = Alloc(WithSystemPrompt(heap[messages[p]]))
            /\ current_messages' = [current_messages EXCEPT ![p] = NewAddr]
       ELSE /\ current_messages' = [current_messages EXCEPT ![p] = messages[p]]
            /\ UNCHANGED heap
    /\ pc' = [pc EXCEPT ![p] = "line143"]
    /\ UNCHANGED <<MODEL_NAME, messages, completion, assistant_reply_content,
                   updated_messages, raised, input_before, requests, turn>>

\* lines 143-146: litellm.completion(model=MODEL_NAME, messages=current_messages) is entered
CallCompletion(p) ==
    /\ pc[p] = "line143"
    /\ requests' = [requests EXCEPT ![p] =
                       Append(@, [model |-> MODEL_NAME,
                                  messages |-> heap[current_messages[p]]])]
    /\ pc' = [pc EXCEPT ![p] = "awaiting"]
    /\ UNCHANGED <<MODEL_NAME, heap, messages, current_messages, completion,
                   assistant_reply_content, updated_messages, raised,
                   input_before, turn>>

\* line 143: the provider call returns response c
CompletionReturns(p, c) ==
    /\ pc[p] = "awaiting"
    /\ completion' = [completion EXCEPT ![p] = c]
    /\ pc' = [pc EXCEPT ![p] = "line148"]
    /\ UNCHANGED <<MODEL_NAME, heap, messages, current_messages,
                   assistant_reply_content, updated_messages, raised,
                   input_before, requests, turn>>

CompletionRaisesAndRetries(p) ==
    /\ pc[p] = "awaiting"
    /\ Len(requests[p]) < 2
    /\ pc' = [pc EXCEPT ![p] = "line143"]
    /\ UNCHANGED <<MODEL_NAME, heap, messages, current_messages, completion,
                   assistant_reply_content, updated_messages, raised,
                   input_before, requests, turn>>

\* line 143: the provider call raises; nothing catches it
CompletionRaises(p) ==
    /\ pc[p] = "awaiting"
    /\ raised' = [raised EXCEPT ![p] = "ProviderError"]
    /\ pc' = [pc EXCEPT ![p] = "raised"]
    /\ UNCHANGED <<MODEL_NAME, heap, messages, current_messages, completion,
                   assistant_reply_content, updated_messages, input_before,
                   requests, turn>>

\* content.strip() == "" treated as a malformed response
ExtractOutcomeRejectingEmpty(c) ==
    IF c.choices = <<>> THEN [error |-> "IndexError", text |-> <<>>]
    ELSE IF c.choices[1].message.kind = "missing" THEN [error |-> "KeyError", text |-> <<>>]
    ELSE IF c.choices[1].message.kind = "none" THEN [error |-> "AttributeError", text |-> <<>>]
    ELSE IF Strip(c.choices[1].message.content) = <<>> THEN [error |-> "ValueError", text |-> <<>>]
    ELSE [error |-> "", text |-> Strip(c.choices[1].message.content)]

\* malformed responses swallowed and replaced by a default reply
ExtractOutcomeWithDefault(c) ==
    IF c.choices = <<>> \/ c.choices[1].message.kind # "str"
    THEN [error |-> "", text |-> <<"a">>]
    ELSE [error |-> "", text |-> Strip(c.choices[1].message.content)]

\* lines 148-151: completion["choices"][0]["message"]["content"].strip()
\* [0] of an empty list raises IndexError, a missing key KeyError, None.strip AttributeError
ExtractOutcome(c) ==
    IF c.choices = <<>> THEN [error |-> "IndexError", text |-> <<>>]
    ELSE IF c.choices[1].message.kind = "missing" THEN [error |-> "KeyError", text |-> <<>>]
    ELSE IF c.choices[1].message.kind = "none" THEN [error |-> "AttributeError", text |-> <<>>]
    ELSE [error |-> "", text |-> Strip(c.choices[1].message.content)]

\* lines 148-151: bind assistant_reply_content, or propagate the exception
ExtractReply(p) ==
    /\ pc[p] = "line148"
    /\ LET out == ExtractOutcome(completion[p]) IN
         IF out.error # ""
         THEN /\ raised' = [raised EXCEPT ![p] = out.error]
              /\ pc' = [pc EXCEPT ![p] = "raised"]
              /\ UNCHANGED assistant_reply_content
         ELSE /\ assistant_reply_content' = [assistant_reply_content EXCEPT ![p] = out.text]
              /\ pc' = [pc EXCEPT ![p] = "line154"]
              /\ UNCHANGED raised
    /\ UNCHANGED <<MODEL_NAME, heap, messages, current_messages, completion,
                   updated_messages, input_before, requests, turn>>

\* current_messages.append(...); return current_messages
AppendInPlaceAndReturn(p) ==
    /\ pc[p] = "line154"
    /\ heap' = [heap EXCEPT ![current_messages[p]] =
                   Append(@, AssistantMessage(assistant_reply_content[p]))]
    /\ updated_messages' = [updated_messages EXCEPT ![p] = current_messages[p]]
    /\ pc' = [pc EXCEPT ![p] = "returned"]
    /\ UNCHANGED <<MODEL_NAME, messages, current_messages, completion,
                   assistant_reply_content, raised, input_before, requests, turn>>

\* return current_messages with nothing appended
ReturnWithoutAppend(p) ==
    /\ pc[p] = "line154"
    /\ heap' = Alloc(heap[current_messages[p]])
    /\ updated_messages' = [updated_messages EXCEPT ![p] = NewAddr]
    /\ pc' = [pc EXCEPT ![p] = "returned"]
    /\ UNCHANGED <<MODEL_NAME, messages, current_messages, completion,
                   assistant_reply_content, raised, input_before, requests, turn>>

\* lines 153-155: updated_messages = current_messages + [assistant message]; return it
AppendAndReturn(p) ==
    /\ pc[p] = "line154"
    /\ heap' = Alloc(Append(heap[current_messages[p]],
                            AssistantMessage(assistant_reply_content[p])))
    /\ updated_messages' = [updated_messages EXCEPT ![p] = NewAddr]
    /\ pc' = [pc EXCEPT ![p] = "returned"]
    /\ UNCHANGED <<MODEL_NAME, messages, current_messages, completion,
                   assistant_reply_content, raised, input_before, requests, turn>>

\* the steps of one invocation once it has been entered
Body(p) ==
    \/ BuildCurrentMessages(p)
    \/ CallCompletion(p)
    \/ ExtractReply(p)
    \/ AppendAndReturn(p)

(***************************************************************************)
(* Single calls: one caller, one call, any history and any response.       *)
(***************************************************************************)
\* line 115: os.environ.get("MODEL_NAME", "gpt-4o-mini"), evaluated once at import
InitModule ==
    /\ MODEL_NAME \in ModelNames
    /\ pc = [p \in Procs |-> "idle"]
    /\ messages = [p \in Procs |-> 0]
    /\ current_messages = [p \in Procs |-> 0]
    /\ completion = [p \in Procs |-> Unbound]
    /\ assistant_reply_content = [p \in Procs |-> <<>>]
    /\ updated_messages = [p \in Procs |-> 0]
    /\ raised = [p \in Procs |-> ""]
    /\ input_before = [p \in Procs |-> <<>>]
    /\ requests = [p \in Procs |-> <<>>]
    /\ turn = [p \in Procs |-> 0]

Init ==
    /\ InitModule
    /\ heap \in {<<h>> : h \in Histories}

Next ==
    \/ Invoke("p1", 1)
    \/ Body("p1")
    \/ \E c \in Completions : CompletionReturns("p1", c)
    \/ CompletionRaises("p1")

Spec == Init /\ [][Next]_vars

(***************************************************************************)
(* Multi-turn sessions: one caller that starts from a history without a    *)
(* system message and keeps calling with what it got back.                 *)
(***************************************************************************)
HasNoSystem(h) == \A i \in 1..Len(h) : h[i].role # "system"

SessionHistories == {h \in Histories : HasNoSystem(h)}

UserMessages == {[role |-> "user", content |-> <<"h", "i">>]}

SessionCompletions ==
    { [choices |-> <<>>],
      [choices |-> <<Choice("str", <<" ", "a", "\n">>)>>],
      [choices |-> <<Choice("str", <<>>)>>],
      [choices |-> <<Choice("none", <<>>)>>] }

InitSession ==
    /\ InitModule
    /\ heap \in {<<h>> : h \in SessionHistories}

NextSession ==
    \/ Invoke("p1", 1)
    \/ Body("p1")
    \/ \E c \in SessionCompletions : CompletionReturns("p1", c)
    \/ CompletionRaises("p1")
    \/ \E u \in UserMessages : NextTurn("p1", u)
    \/ RetryTurn("p1")

SpecSession == InitSession /\ [][NextSession]_vars

(***************************************************************************)
(* Concurrent invocations: two callers, each with one call, on the same    *)
(* list object or on different ones, interleaved line by line.             *)
(***************************************************************************)
ConcHistories ==
    { <<>>,
      <<[role |-> "user", content |-> <<"h", "i">>]>>,
      <<[role |-> "system", content |-> <<"h", "i">>],
        [role |-> "user", content |-> <<"h", "i">>]>> }

ConcCompletions ==
    { [choices |-> <<>>],
      [choices |-> <<Choice("str", <<" ", "a">>)>>],
      [choices |-> <<Choice("str", <<"a", "a">>)>>] }

InitConc ==
    /\ InitModule
    /\ heap \in {<<h1, h2>> : h1 \in ConcHistories, h2 \in ConcHistories}

NextConc ==
    \E p \in Procs :
        \/ \E a \in {1, 2} : Invoke(p, a)
        \/ Body(p)
        \/ \E c \in ConcCompletions : CompletionReturns(p, c)
        \/ CompletionRaises(p)

SpecConc == InitConc /\ [][NextConc]_vars

(***************************************************************************)
(* Vocabulary of the properties.                                           *)
(***************************************************************************)
Returned(p) == pc[p] = "returned"

Failed(p) == pc[p] = "raised"

\* the history the caller passed, as it was when the call was made
In(p) == input_before[p]

\* the history the call returned
Out(p) == heap[updated_messages[p]]

StartsWithSystem(h) == h # <<>> /\ h[1].role = "system"

SystemCount(h) == Cardinality({i \in 1..Len(h) : h[i].role = "system"})

AllSpace(s) == \A k \in 1..Len(s) : s[k] \in Whitespace

\* t is s without its leading and trailing whitespace
IsTrimOf(t, s) ==
    \E i \in 0..Len(s), j \in 0..Len(s) :
        /\ i + j <= Len(s)
        /\ AllSpace(SubSeq(s, 1, i))
        /\ AllSpace(SubSeq(s, Len(s) - j + 1, Len(s)))
        /\ t = SubSeq(s, i + 1, Len(s) - j)
        /\ t # <<>> => t[1] \notin Whitespace /\ t[Len(t)] \notin Whitespace

\* the sequence the call is to submit for input h
Working(h) ==
    IF StartsWithSystem(h) THEN h ELSE <<[role |-> "system", content |-> SYSTEM_PROMPT]>> \o h

\* the provider answered, and its first choice carries no text
Malformed(c) ==
    c # Unbound /\ (c.choices = <<>> \/ c.choices[1].message.kind \in {"none", "missing"})

\* the provider answered with text in its first choice
HasText(c) ==
    c # Unbound /\ c.choices # <<>> /\ c.choices[1].message.kind = "str"

FirstText(c) == c.choices[1].message.content

\* the provider call of p is over (it returned or raised)
CallOver(p) == pc[p] \in {"line148", "line154", "returned", "raised"}

(***************************************************************************)
(* C1: when the input history is empty or does not start with a system     *)
(* message, the returned history starts with the message                   *)
(* {system, SYSTEM_PROMPT}, immediately followed by the whole input in     *)
(* its original order.                                                     *)
(***************************************************************************)
C1_PrependsSystemPrompt ==
    \A p \in Procs :
        Returned(p) /\ ~StartsWithSystem(In(p)) =>
            /\ Len(Out(p)) > Len(In(p))
            /\ Out(p)[1] = [role |-> "system", content |-> SYSTEM_PROMPT]
            /\ SubSeq(Out(p), 2, Len(In(p)) + 1) = In(p)
            /\ SubSeq(heap[current_messages[p]], 2, Len(In(p)) + 1) = In(p)
            /\ SystemCount(Out(p)) = SystemCount(In(p)) + 1

C1_Witness ==
    \E p \in Procs :
        /\ Returned(p)
        /\ Len(In(p)) = 2
        /\ In(p)[1].role = "user"
        /\ In(p)[2].role = "system"

(***************************************************************************)
(* C2: when the input history starts with a system message of any          *)
(* content, no system message is inserted: the working sequence is the     *)
(* input itself, the output is the input followed by one assistant         *)
(* message, and the number of system messages is unchanged.                *)
(***************************************************************************)
C2_NoSecondSystemMessage ==
    \A p \in Procs :
        StartsWithSystem(In(p)) =>
            /\ current_messages[p] # 0 =>
                   current_messages[p] = messages[p] /\ heap[current_messages[p]] = In(p)
            /\ Returned(p) =>
                   /\ Len(Out(p)) = Len(In(p)) + 1
                   /\ SubSeq(Out(p), 1, Len(In(p))) = In(p)
                   /\ Out(p)[Len(Out(p))].role = "assistant"
                   /\ SystemCount(Out(p)) = SystemCount(In(p))

C2_Witness ==
    \E p \in Procs :
        /\ Returned(p)
        /\ StartsWithSystem(In(p))
        /\ In(p)[1].content # SYSTEM_PROMPT

(***************************************************************************)
(* C3: the last element of a returned history has role "assistant", its    *)
(* content is the text of the provider's first choice without leading and  *)
(* trailing whitespace, and everything before it is the working sequence.  *)
(***************************************************************************)
C3_AssistantReplyTrimmed ==
    \A p \in Procs :
        Returned(p) =>
            LET out == Out(p)
                last == out[Len(out)]
            IN /\ HasText(completion[p])
               /\ last.role = "assistant"
               /\ IsTrimOf(last.content, FirstText(completion[p]))
               /\ last.content # <<>> =>
                      /\ last.content[1] \notin Whitespace
                      /\ last.content[Len(last.content)] \notin Whitespace
               /\ SubSeq(out, 1, Len(out) - 1) = heap[current_messages[p]]

C3_Witness ==
    \E p \in Procs :
        /\ Returned(p)
        /\ FirstText(completion[p]) = <<" ", "a", "\n">>
        /\ Out(p)[Len(Out(p))].content = <<"a">>

(***************************************************************************)
(* C4: a returned history is one element longer than the working           *)
(* sequence: input length + 2 when the input is empty or does not start    *)
(* with a system message, input length + 1 when it does.                   *)
(***************************************************************************)
C4_OutputLength ==
    \A p \in Procs :
        Returned(p) =>
            /\ Len(Out(p)) = Len(heap[current_messages[p]]) + 1
            /\ Len(Out(p)) = Len(In(p)) + (IF StartsWithSystem(In(p)) THEN 1 ELSE 2)

C4_Witness ==
    \E p \in Procs :
        /\ Returned(p)
        /\ In(p) = <<>>
        /\ Len(Out(p)) = 2

(***************************************************************************)
(* C5: when the provider call raises, or answers with no choices or with   *)
(* absent or null content, the call ends with an exception at the caller:  *)
(* nothing is returned and the caller's history has no reply appended.     *)
(***************************************************************************)
C5_ProviderFailurePropagates ==
    \A p \in Procs :
        /\ CallOver(p) /\ pc[p] # "line148"
              /\ (completion[p] = Unbound \/ Malformed(completion[p]))
              => Failed(p)
        /\ Failed(p) =>
              /\ raised[p] # ""
              /\ updated_messages[p] = 0
              /\ heap[messages[p]] = In(p)
              /\ \A a \in DOMAIN heap :
                     heap[a] = <<>> \/ heap[a][Len(heap[a])].role # "assistant"
                        \/ heap[a] \in {In(p), Working(In(p))}

C5_Witness ==
    \E p \in Procs :
        /\ Failed(p)
        /\ raised[p] = "AttributeError"
        /\ completion[p].choices[1].message.kind = "none"
        /\ heap[messages[p]] = In(p)

(***************************************************************************)
(* C6: the call never changes the caller's list: at every point of the     *)
(* call, and after it returned or raised, the input list holds what it     *)
(* held when the call was made, and a returned history is another list     *)
(* object than the input.                                                  *)
(***************************************************************************)
C6_InputNotMutated ==
    \A p \in Procs :
        pc[p] # "idle" =>
            /\ heap[messages[p]] = In(p)
            /\ Returned(p) => updated_messages[p] # messages[p]

C6_Witness ==
    \E p \in Procs :
        /\ Returned(p)
        /\ current_messages[p] = messages[p]
        /\ Len(In(p)) = 2

(***************************************************************************)
(* C7: an invocation makes exactly one provider call, with MODEL_NAME and  *)
(* the working sequence (which starts with a system message); it makes no  *)
(* second call after a failure, and the reply is appended only once the    *)
(* call has completed.                                                     *)
(***************************************************************************)
C7_ExactlyOneProviderCall ==
    \A p \in Procs :
        /\ Len(requests[p]) <= 1
        /\ pc[p] \in {"awaiting"} \/ CallOver(p) =>
              /\ Len(requests[p]) = 1
              /\ requests[p][1].model = MODEL_NAME
              /\ requests[p][1].messages = Working(In(p))
              /\ requests[p][1].messages[1].role = "system"
        /\ updated_messages[p] # 0 => Len(requests[p]) = 1 /\ completion[p] # Unbound

C7_Witness ==
    \E p \in Procs :
        /\ Failed(p)
        /\ raised[p] = "ProviderError"
        /\ Len(requests[p]) = 1

(***************************************************************************)
(* C8: concurrent invocations are independent.  Under every interleaving   *)
(* each invocation ends as it would alone with the same input and the      *)
(* same provider answer, no step changes a list that already exists, and   *)
(* MODEL_NAME is never written.                                            *)
(***************************************************************************)
AsIfAlone(p) ==
    /\ pc[p] # "idle" => heap[messages[p]] = In(p)
    /\ current_messages[p] # 0 => heap[current_messages[p]] = Working(In(p))
    /\ Returned(p) =>
          /\ HasText(completion[p])
          /\ SubSeq(Out(p), 1, Len(Out(p)) - 1) = Working(In(p))
          /\ Out(p)[Len(Out(p))].role = "assistant"
          /\ IsTrimOf(Out(p)[Len(Out(p))].content, FirstText(completion[p]))
    /\ Failed(p) =>
          \/ completion[p] = Unbound /\ raised[p] = "ProviderError"
          \/ Malformed(completion[p]) /\ raised[p] # "ProviderError"

NoSharedWrites ==
    /\ MODEL_NAME' = MODEL_NAME
    /\ \A a \in DOMAIN heap : a \in DOMAIN heap' /\ heap'[a] = heap[a]
    /\ \A p \in Procs :
          pc'[p] = pc[p] =>
              /\ messages'[p] = messages[p]
              /\ current_messages'[p] = current_messages[p]
              /\ completion'[p] = completion[p]
              /\ assistant_reply_content'[p] = assistant_reply_content[p]
              /\ updated_messages'[p] = updated_messages[p]
              /\ raised'[p] = raised[p]

C8_ConcurrentInvocationsIndependent ==
    /\ [](\A p \in Procs : AsIfAlone(p))
    /\ [][NoSharedWrites]_vars

C8_Witness ==
    /\ Returned("p1") /\ Returned("p2")
    /\ messages["p1"] = messages["p2"]
    /\ ~StartsWithSystem(In("p1"))
    /\ completion["p1"] # completion["p2"]

(***************************************************************************)
(* C9: in a session that starts from a history without a system message    *)
(* and goes on from each returned history with a user message added,       *)
(* every returned history starts with the system prompt and holds exactly  *)
(* one system message; calls made on a returned history prepend nothing.   *)
(***************************************************************************)
C9_SessionKeepsOneSystemPrompt ==
    \A p \in Procs :
        /\ Returned(p) =>
              /\ Out(p)[1] = [role |-> "system", content |-> SYSTEM_PROMPT]
              /\ SystemCount(Out(p)) = 1
        /\ messages[p] > 1 /\ current_messages[p] # 0 =>
              current_messages[p] = messages[p]

C9_Witness ==
    \E p \in Procs :
        /\ Returned(p)
        /\ turn[p] = 3
        /\ messages[p] > 1
        /\ Len(Out(p)) >= 6

(***************************************************************************)
(* C10: when the text of the provider's first choice is empty or only      *)
(* whitespace, the call does not fail: it returns the working sequence     *)
(* followed by {assistant, ""}.                                            *)
(***************************************************************************)
C10_BlankReplyReturnsEmptyContent ==
    \A p \in Procs :
        HasText(completion[p]) /\ AllSpace(FirstText(completion[p])) =>
            /\ ~Failed(p)
            /\ raised[p] = ""
            /\ Returned(p) =>
                  Out(p) = Working(In(p)) \o <<[role |-> "assistant", content |-> <<>>]>>

C10_Witness ==
    \E p \in Procs :
        /\ Returned(p)
        /\ FirstText(completion[p]) = <<" ", "\n">>
        /\ Out(p)[Len(Out(p))].content = <<>>

====
